---- MODULE Spec2Model ----
(***************************************************************************)
(* A model of the Sentinel-2 helper functions of sentinel_helpers.py.      *)
(* Three copies of the module are in the repository and are all modelled:  *)
(*   "sources"    src/sources/sentinel_helpers.py                           *)
(*   "truecolor"  src/true-color-image/sentinel_helpers.py                  *)
(*   "legacy"     src/True-Color Image/sentinel_helpers.py                  *)
(* Python strings are sequences of one-character strings, so that          *)
(* substring tests, suffix tests and pathlib's normalisation are computed. *)
(* Python values carry their type: [t |-> "str" | "Path" | "list", v].     *)
(***************************************************************************)
EXTENDS Integers, Sequences, FiniteSets, TLC

VARIABLES
    pc,          \* position of the call in progress
    variant,     \* which copy of the module runs
    call,        \* the function called and its arguments as the caller passed them
    result,      \* the value returned
    exc,         \* the exception that reached the caller ("None": none)
    \* scihub_band_paths
    p,           \* the product location, [path, files]
    bands,       \* the `bands` argument
    resolution,  \* the `resolution` argument (None or a str)
    rasters,     \* the local `rasters`
    acc,         \* the list a comprehension is building
    bi,          \* the outer loop index of the comprehension
    \* RasterReaderList
    paths,       \* self.paths
    open_files,  \* self.open_files: the handles opened, in order
    handle,      \* every handle's state: "unopened", "open", "closed", "close_failed"
    closes,      \* the handles close() was called on, in order
    ri,          \* the loop index of __enter__ / __exit__
    io,          \* the environment: which opens, which closes and whether the body fail
    pending,     \* the exception the with block's body raised, if any
    \* scihub_cloud_mask
    product_path, \* the product location, [path, files]
    features,    \* the features of the product's cloud mask file
    kwargs,      \* rasterize, target_shape, target_transform
    lib,         \* the environment: how the vector libraries treat an empty file
    file,        \* the local `file`
    mask         \* the local `mask`

bpVars == <<p, bands, resolution, rasters, acc, bi>>
rrVars == <<paths, open_files, handle, closes, ri, io, pending>>
cmVars == <<product_path, features, kwargs, lib, file, mask>>
vars == <<pc, variant, call, result, exc, bpVars, rrVars, cmVars>>

----------------------------------------------------------------------------
(* Bounds of the model.                                                     *)
MaxEntries == 3
MaxBands == 2

None == [t |-> "None", v |-> <<>>]
Str(s) == [t |-> "str", v |-> s]
Path(s) == [t |-> "Path", v |-> s]
List(xs) == [t |-> "list", v |-> xs]

----------------------------------------------------------------------------
(* Python str operations.                                                   *)

\* `sub in s` for two str
Contains(sub, s) ==
    \E i \in 0..(Len(s) - Len(sub)) : SubSeq(s, i + 1, i + Len(sub)) = sub

\* s.endswith(suf)
EndsWith(s, suf) ==
    /\ Len(suf) <= Len(s)
    /\ SubSeq(s, Len(s) - Len(suf) + 1, Len(s)) = suf

\* s.startswith(pre)
StartsWith(s, pre) ==
    /\ Len(pre) <= Len(s)
    /\ SubSeq(s, 1, Len(pre)) = pre

RECURSIVE Split(_)
\* s.split('/')
Split(s) ==
    IF \A i \in 1..Len(s) : s[i] # "/"
    THEN <<s>>
    ELSE LET k == CHOOSE i \in 1..Len(s) :
                      s[i] = "/" /\ \A j \in 1..(i - 1) : s[j] # "/"
         IN <<SubSeq(s, 1, k - 1)>> \o Split(SubSeq(s, k + 1, Len(s)))

RECURSIVE Join(_)
\* '/'.join(parts)
Join(parts) ==
    IF Len(parts) = 0 THEN <<>>
    ELSE IF Len(parts) = 1 THEN parts[1]
    ELSE parts[1] \o <<"/">> \o Join(Tail(parts))

\* pathlib: the components of a POSIX path; empty and '.' components vanish
PathParts(s) ==
    SelectSeq(Split(s), LAMBDA c : c # <<>> /\ c # <<".">>)

\* pathlib: the root of a POSIX path ('//' is kept when exactly two lead)
PathRoot(s) ==
    IF ~StartsWith(s, <<"/">>) THEN <<>>
    ELSE IF StartsWith(s, <<"/", "/">>) /\ ~StartsWith(s, <<"/", "/", "/">>)
    THEN <<"/", "/">>
    ELSE <<"/">>

\* str(Path(s)): pathlib normalises what it is given
PathStr(s) ==
    LET n == PathRoot(s) \o Join(PathParts(s))
    IN IF n = <<>> THEN <<".">> ELSE n

\* Path(s).name: the final component
PathName(s) ==
    LET parts == PathParts(s)
    IN IF Len(parts) = 0 THEN <<>> ELSE parts[Len(parts)]

\* Path(s).suffix: the final component's last extension
PathSuffix(s) ==
    LET name == PathName(s)
        dots == {i \in 1..Len(name) : name[i] = "."}
    IN IF dots = {} THEN <<>>
       ELSE LET i == CHOOSE d \in dots : \A e \in dots : e <= d
            IN IF 1 < i /\ i < Len(name)
               THEN SubSeq(name, i, Len(name)) ELSE <<>>

\* Path(s).absolute(): the working directory is put before a relative path
Cwd == <<"/", "w">>
PathAbsolute(s) ==
    IF StartsWith(s, <<"/">>) THEN PathStr(s) ELSE PathStr(Cwd \o <<"/">> \o s)

----------------------------------------------------------------------------
(* The strings of the program and of the inputs.                            *)
JP2 == <<".", "j", "p", "2">>
ZIP == <<".", "z", "i", "p">>
ZipScheme == <<"z", "i", "p", "+", "f", "i", "l", "e", ":", "/", "/">>
Bang == <<"!", "/">>
B02 == <<"B", "0", "2">>
B03 == <<"B", "0", "3">>
B04 == <<"B", "0", "4">>
B0 == <<"B", "0">>
R10m == <<"1", "0", "m">>

\* the band identifiers a caller asks for; B0 is inside B02, B03 and B04
BandIds == {B02, B03, B0}

\* file names a product may hold
FileNames ==
    { <<"g", "/">> \o B02 \o <<"_">> \o R10m \o JP2,
      <<"g", "/">> \o B03 \o <<"_">> \o R10m \o JP2,
      <<"g", "/">> \o B04 \o <<"_", "2", "0", "m">> \o JP2,
      B02 \o <<"/", "x">> \o JP2,
      <<"g", "/">> \o B02 \o <<".", "x", "m", "l">> }

\* a product's listing: distinct file names, in the order the archive or the
\* file system lists them
Listings ==
    { fs \in UNION {[1..n -> FileNames] : n \in 0..MaxEntries} :
        \A i, j \in 1..Len(fs) : i # j => fs[i] # fs[j] }

\* product locations: an absolute archive, a relative archive, a directory
ArchivePaths == { <<"/", "a">> \o ZIP, <<"a">> \o ZIP }
DirPaths == { <<"/", "d">> }

Products == [path : ArchivePaths \cup DirPaths, files : Listings]

\* the lists of bands a caller asks for: distinct identifiers, in any order
BandLists ==
    { bs \in UNION {[1..n -> BandIds] : n \in 1..MaxBands} :
        \A i, j \in 1..Len(bs) : i # j => bs[i] # bs[j] }

Variants == {"sources", "truecolor", "legacy"}

----------------------------------------------------------------------------
(* scihub_band_paths / band_paths.  A frame holds the locals of one call;   *)
(* each step of the function is an operator from frame to frame.           *)

Frame ==
    [pc |-> pc, variant |-> variant, p |-> p, bands |-> bands,
     resolution |-> resolution, rasters |-> rasters, acc |-> acc, bi |-> bi,
     result |-> result, exc |-> exc]

SetFrame(f) ==
    /\ pc' = f.pc
    /\ variant' = f.variant
    /\ p' = f.p
    /\ bands' = f.bands
    /\ resolution' = f.resolution
    /\ rasters' = f.rasters
    /\ acc' = f.acc
    /\ bi' = f.bi
    /\ result' = f.result
    /\ exc' = f.exc

Raise(f, e) == [f EXCEPT !.pc = "done", !.exc = e]

\* `if type(bands) != list: bands = [bands]`; the legacy copy has no such line
wrap_single_band(v, b) ==
    IF v # "legacy" /\ b.t # "list" THEN List(<<b.v>>) ELSE b

\* entry of the function: the arguments become the locals
band_paths_enter(v, loc, b, res) ==
    [pc |-> "list_rasters", variant |-> v, p |-> loc,
     bands |-> wrap_single_band(v, b), resolution |-> res,
     rasters |-> List(<<>>), acc |-> <<>>, bi |-> 1,
     result |-> None, exc |-> "None"]

\* the branch on the location's extension
is_zip(f) ==
    IF f.variant = "legacy" THEN EndsWith(f.p.path, ZIP)
    ELSE PathSuffix(f.p.path) = ZIP

\* one candidate raster of an archive, as the copy at hand builds it
zip_raster(v, path, entry) ==
    IF v = "sources"
    THEN Path(PathStr(ZipScheme \o PathAbsolute(path) \o Bang \o entry))
    ELSE Str(entry)

\* Path.glob('**/*.jp2'): a generator of the paths under the directory
glob_jp2(path, files) ==
    LET hits == SelectSeq(files, LAMBDA e : EndsWith(PathName(e), JP2))
    IN [t |-> "generator",
        v |-> [i \in 1..Len(hits) |->
                   Path(PathStr(PathStr(path) \o <<"/">> \o hits[i]))]]

\* the candidate rasters: the archive's '.jp2' entries, or the glob
list_rasters(f) ==
    IF is_zip(f)
    THEN LET jp2 == SelectSeq(f.p.files, LAMBDA e : EndsWith(e, JP2))
         IN [f EXCEPT !.pc = "filter_bands",
                      !.rasters = List([i \in 1..Len(jp2) |->
                                   zip_raster(f.variant, f.p.path, jp2[i])])]
    ELSE IF f.variant = "legacy"
    THEN Raise(f, "TypeError")   \* glob.glob() of a Path
    ELSE [f EXCEPT !.pc = "filter_bands",
                   !.rasters = glob_jp2(f.p.path, f.p.files)]

\* iterating `bands`: a list yields its items, a str its characters
Iter(b) ==
    IF b.t = "list" THEN b.v ELSE [i \in 1..Len(b.v) |-> <<b.v[i]>>]

\* the text a raster is matched on: `raster.name` in sources, `raster` itself
\* in the other copies
match_text(v, raster) ==
    IF v = "sources" THEN PathName(raster.v) ELSE raster.v

\* `band in raster` raises for a Path, which has no __contains__
match_raises(v, raster) == v # "sources" /\ raster.t = "Path"

\* legacy: `[r for r in rasters for b in bands if b in r]`, one raster: it is
\* kept once for every band found in it
filter_one_raster(f) ==
    LET r == f.rasters.v[f.bi]
        bs == Iter(f.bands)
        hits == SelectSeq(bs, LAMBDA b : Contains(b, match_text(f.variant, r)))
    IN [f EXCEPT !.acc = f.acc \o [i \in 1..Len(hits) |-> r],
                 !.bi = f.bi + 1]

\* a changed filter_one_band: the candidate rasters are held in an iterator
\* (a generator expression where line 88 builds a list), which the first
\* band's pass runs dry
filter_one_band_exhausting(f) ==
    LET band == f.bands.v[f.bi]
        items == f.rasters.v
    IN IF \E i \in 1..Len(items) : match_raises(f.variant, items[i])
       THEN Raise(f, "TypeError")
       ELSE [f EXCEPT
               !.acc = f.acc \o SelectSeq(items, LAMBDA r :
                           Contains(band, match_text(f.variant, r))),
               !.rasters = [f.rasters EXCEPT !.v = <<>>],
               !.bi = f.bi + 1]

\* sources, truecolor: `[raster for band in bands for raster in rasters if
\* band in ...]`, one band: the inner loop runs over `rasters`, and runs a
\* generator dry
filter_one_band(f) ==
    LET band == f.bands.v[f.bi]
        items == f.rasters.v
    IN IF \E i \in 1..Len(items) : match_raises(f.variant, items[i])
       THEN Raise(f, "TypeError")
       ELSE [f EXCEPT
               !.acc = f.acc \o SelectSeq(items, LAMBDA r :
                           Contains(band, match_text(f.variant, r))),
               !.rasters = IF f.rasters.t = "generator"
                           THEN [f.rasters EXCEPT !.v = <<>>]
                           ELSE f.rasters,
               !.bi = f.bi + 1]

\* one outer iteration of the comprehension that keeps the requested bands
filter_bands_step(f) ==
    IF f.variant = "legacy" THEN filter_one_raster(f) ELSE filter_one_band(f)

\* what the outer loop of the comprehension runs over
outer_len(f) ==
    IF f.variant = "legacy" THEN Len(f.rasters.v) ELSE Len(f.bands.v)

\* the comprehension is done: its list is bound to `rasters`
filter_bands_end(f) ==
    [f EXCEPT !.pc = "filter_resolution", !.rasters = List(f.acc), !.acc = <<>>]

\* `if resolution:` keeps the rasters that hold the tag
filter_resolution(f) ==
    IF f.resolution.t = "str" /\ Len(f.resolution.v) > 0
    THEN [f EXCEPT !.pc = "format",
            !.rasters = List(SelectSeq(f.rasters.v, LAMBDA r :
                Contains(f.resolution.v, match_text(f.variant, r))))]
    ELSE [f EXCEPT !.pc = "format"]

\* the address of an archive entry, as truecolor and legacy write it
zip_address(v, path, entry) ==
    IF v = "legacy" THEN Str(ZipScheme \o path \o Bang \o entry)
    ELSE Str(ZipScheme \o PathStr(path) \o Bang \o entry)

\* the last lines: truecolor rewrites archive entries, legacy rewrites
\* whatever it holds, sources returns its Path objects
format_and_return(f) ==
    LET rewrite == \/ f.variant = "legacy"
                   \/ f.variant = "truecolor" /\ is_zip(f)
        out == IF rewrite
               THEN [i \in 1..Len(f.rasters.v) |->
                        zip_address(f.variant, f.p.path, f.rasters.v[i].v)]
               ELSE f.rasters.v
    IN [f EXCEPT !.pc = "done", !.result = List(out)]

\* the function, step by step
band_paths_step(f) ==
    CASE f.pc = "list_rasters" -> list_rasters(f)
      [] f.pc = "filter_bands" ->
            IF f.bi <= outer_len(f) THEN filter_bands_step(f)
            ELSE filter_bands_end(f)
      [] f.pc = "filter_resolution" -> filter_resolution(f)
      [] f.pc = "format" -> format_and_return(f)
      [] OTHER -> f

RECURSIVE band_paths_run(_)
\* the function run to its return or raise
band_paths_run(f) ==
    IF f.pc = "done" THEN f ELSE band_paths_run(band_paths_step(f))

\* scihub_band_paths(p, bands, resolution)
scihub_band_paths(v, loc, b, res) == band_paths_run(band_paths_enter(v, loc, b, res))

BGR == List(<<B02, B03, B04>>)

Resolutions == {None, Str(R10m)}
BandArgs == {Str(b) : b \in BandIds} \cup {List(bs) : bs \in BandLists}

----------------------------------------------------------------------------
(* Actions of the band path resolver.                                       *)

Idle ==
    /\ pc = "idle"

ScihubBandPathsCall ==
    /\ Idle
    /\ \E v \in Variants, loc \in Products, b \in BandArgs, res \in Resolutions :
        /\ SetFrame(band_paths_enter(v, loc, b, res))
        /\ call' = [fn |-> "band_paths", bands |-> b]
    /\ UNCHANGED <<rrVars, cmVars>>

\* scihub_bgr_paths(product_path, resolution): the blue, green and red bands
ScihubBgrPathsCall ==
    /\ Idle
    /\ \E v \in {"sources", "truecolor"}, loc \in Products, res \in Resolutions :
        /\ SetFrame(band_paths_enter(v, loc, BGR, res))
        /\ call' = [fn |-> "bgr_paths", bands |-> BGR]
    /\ UNCHANGED <<rrVars, cmVars>>

ListRasters ==
    /\ pc = "list_rasters"
    /\ SetFrame(list_rasters(Frame))
    /\ UNCHANGED <<call, rrVars, cmVars>>

FilterBandsStep ==
    /\ pc = "filter_bands"
    /\ bi <= outer_len(Frame)
    /\ SetFrame(filter_bands_step(Frame))
    /\ UNCHANGED <<call, rrVars, cmVars>>

FilterBandsEnd ==
    /\ pc = "filter_bands"
    /\ bi > outer_len(Frame)
    /\ SetFrame(filter_bands_end(Frame))
    /\ UNCHANGED <<call, rrVars, cmVars>>

FilterResolution ==
    /\ pc = "filter_resolution"
    /\ SetFrame(filter_resolution(Frame))
    /\ UNCHANGED <<call, rrVars, cmVars>>

FormatAndReturn ==
    /\ pc = "format"
    /\ SetFrame(format_and_return(Frame))
    /\ UNCHANGED <<call, rrVars, cmVars>>

Init ==
    /\ pc = "idle"
    /\ variant = "sources"
    /\ call = [fn |-> "none"]
    /\ result = None
    /\ exc = "None"
    /\ p = [path |-> <<>>, files |-> <<>>]
    /\ bands = None
    /\ resolution = None
    /\ rasters = List(<<>>)
    /\ acc = <<>>
    /\ bi = 1
    /\ paths = <<>>
    /\ open_files = <<>>
    /\ handle = <<>>
    /\ closes = <<>>
    /\ ri = 1
    /\ io = [open_fails |-> {}, close_fails |-> {}, body_raises |-> FALSE]
    /\ pending = "None"
    /\ product_path = [path |-> <<>>, files |-> <<>>]
    /\ features = <<>>
    /\ kwargs = [rasterize |-> None, target_shape |-> None, target_transform |-> None]
    /\ lib = [empty_raises |-> FALSE]
    /\ file = None
    /\ mask = None

NextPaths ==
    \/ ScihubBandPathsCall
    \/ ScihubBgrPathsCall
    \/ ListRasters
    \/ FilterBandsStep
    \/ FilterBandsEnd
    \/ FilterResolution
    \/ FormatAndReturn

SpecPaths == Init /\ [][NextPaths]_vars

----------------------------------------------------------------------------
(* Claims about the band path resolver.                                     *)

Done == pc = "done"

\* the band identifiers the caller asked for, as a sequence
Requested == IF call.bands.t = "list" THEN call.bands.v ELSE <<call.bands.v>>

\* the product is an archive / a directory
IsArchive == p.path \in ArchivePaths

\* a returned path addresses entry e of the product
RefersTo(r, e) == EndsWith(r.v, <<"/">> \o e)

\* how often entry e is returned
TimesReturned(e) ==
    Cardinality({i \in 1..Len(result.v) : RefersTo(result.v[i], e)})

\* how many of the requested bands the name of entry e contains
BandsMatched(e) ==
    Cardinality({k \in 1..Len(Requested) : Contains(Requested[k], PathName(e))})

\* C3 (as claimed, for the sources copy): a call without a resolution returns
\* exactly the product's '.jp2' entries whose name contains a requested band,
\* each once per requested band it matches, and nothing else; for an archive
\* and for a directory alike, and for every requested band.
C3_ExactlyTheMatchingRasters ==
    (Done /\ variant = "sources" /\ call.fn = "band_paths" /\ resolution = None)
    => /\ exc = "None"
       /\ \A i \in 1..Len(result.v) :
              \E j \in 1..Len(p.files) : RefersTo(result.v[i], p.files[j])
       /\ \A j \in 1..Len(p.files) :
              TimesReturned(p.files[j]) =
                  IF EndsWith(p.files[j], JP2) THEN BandsMatched(p.files[j]) ELSE 0

\* the archive paths a returned address may name: as given, normalised, absolute
ArchiveSpellings == {p.path, PathStr(p.path), PathAbsolute(p.path)}

\* C4 (as claimed): every path returned for an archive reads
\* 'zip+file://<archive-path>!/<entry-path>', and no path returned for a
\* directory starts with 'zip+file://'.
C4_ArchiveAddressForm ==
    (Done /\ exc = "None")
    => \A i \in 1..Len(result.v) :
          IF IsArchive
          THEN \E a \in ArchiveSpellings : \E j \in 1..Len(p.files) :
                  result.v[i].v = ZipScheme \o a \o Bang \o p.files[j]
          ELSE ~StartsWith(result.v[i].v, ZipScheme)

\* C6 (as claimed): a call with the single band identifier b returns what the
\* call with the one-element list [b] returns.
C6_SingleBandIsOneElementList ==
    (Done /\ call.fn = "band_paths" /\ call.bands.t = "str")
    => LET g == scihub_band_paths(variant, p, List(<<call.bands.v>>), resolution)
       IN result = g.result /\ exc = g.exc

\* entry e matches band b the way the copy at hand matches: on the file name
\* in sources, on the whole entry path in truecolor
Matches(b, e) ==
    IF variant = "sources" THEN Contains(b, PathName(e)) ELSE Contains(b, e)

\* entry e survives the resolution filter
HasResolution(e) ==
    resolution = None \/ Matches(resolution.v, e)

RECURSIVE BandMajor(_)
\* the entries in band-request order: for each requested band from k on, the
\* matching '.jp2' entries in listing order
BandMajor(k) ==
    IF k > Len(Requested) THEN <<>>
    ELSE SelectSeq(p.files, LAMBDA e : /\ EndsWith(e, JP2)
                                       /\ Matches(Requested[k], e)
                                       /\ HasResolution(e))
         \o BandMajor(k + 1)

\* C10: for an archive, scihub_band_paths and scihub_bgr_paths (sources and
\* truecolor) return the paths in band-request order: the entries matching the
\* first requested band in listing order, then those matching the second, and
\* so on; an entry matching k requested bands is returned k times.
C10_BandRequestOrder ==
    (Done /\ IsArchive /\ variant \in {"sources", "truecolor"})
    => /\ exc = "None"
       /\ Len(result.v) = Len(BandMajor(1))
       /\ \A i \in 1..Len(result.v) : RefersTo(result.v[i], BandMajor(1)[i])

\* an archive call with two requested bands whose first entry matches both
\* and whose second matches only the first: it comes back as e1, e2, e1
C10_Witness ==
    /\ Done /\ IsArchive /\ variant \in {"sources", "truecolor"}
    /\ Len(Requested) = 2
    /\ Len(result.v) = 3
    /\ result.v[1] = result.v[3]
    /\ result.v[1] # result.v[2]

----------------------------------------------------------------------------
(* RasterReaderList, used as `with RasterReaderList(paths) as files: body`. *)
(* The with statement calls __enter__, runs the body if __enter__ returned, *)
(* and calls __exit__ only if __enter__ returned.                           *)

MaxPaths == 3

\* the copies that define the class (the legacy copy does not)
ReaderVariants == {"sources", "truecolor"}

\* __init__ and the start of __enter__
WithEnter ==
    /\ Idle
    /\ \E v \in ReaderVariants, n \in 0..MaxPaths :
       \E of \in SUBSET (1..n), cf \in SUBSET (1..n), br \in BOOLEAN :
        /\ variant' = v
        /\ paths' = [i \in 1..n |-> i]
        /\ io' = [open_fails |-> of, close_fails |-> cf, body_raises |-> br]
        /\ handle' = [i \in 1..n |-> "unopened"]
        /\ call' = [fn |-> "with RasterReaderList"]
    /\ open_files' = <<>>
    /\ closes' = <<>>
    /\ ri' = 1
    /\ pending' = "None"
    /\ pc' = "enter"
    /\ UNCHANGED <<result, exc, bpVars, cmVars>>

\* __enter__, one path: r.open(f) raises, or its handle is appended.  A raise
\* leaves __enter__ and the with statement: __exit__ is not called.
EnterOpen ==
    /\ pc = "enter"
    /\ ri <= Len(paths)
    /\ IF paths[ri] \in io.open_fails
       THEN /\ exc' = "OpenError"
            /\ pc' = "done"
            /\ UNCHANGED <<open_files, handle, ri>>
       ELSE /\ open_files' = Append(open_files, paths[ri])
            /\ handle' = [handle EXCEPT ![paths[ri]] = "open"]
            /\ ri' = ri + 1
            /\ UNCHANGED <<exc, pc>>
    /\ UNCHANGED <<variant, call, result, paths, closes, io, pending, bpVars, cmVars>>

\* __enter__ returns self.open_files; the body runs and may raise
EnterReturnAndBody ==
    /\ pc = "enter"
    /\ ri > Len(paths)
    /\ result' = List(open_files)
    /\ pending' = IF io.body_raises THEN "BodyError" ELSE "None"
    /\ ri' = 1
    /\ pc' = "exit"
    /\ UNCHANGED <<variant, call, exc, paths, open_files, handle, closes, io,
                   bpVars, cmVars>>

\* what one f.close() of __exit__ does to the loop: sources wraps it in
\* try/except/pass, truecolor lets the failure leave __exit__
close_outcome(v, fails) ==
    IF ~fails THEN "closed"
    ELSE IF v = "sources" THEN "swallowed"
    ELSE "raised"

\* __exit__, one handle
ExitClose ==
    /\ pc = "exit"
    /\ ri <= Len(open_files)
    /\ LET f == open_files[ri]
           o == close_outcome(variant, f \in io.close_fails)
       IN /\ closes' = Append(closes, f)
          /\ handle' = [handle EXCEPT ![f] = IF o = "closed" THEN "closed"
                                             ELSE "close_failed"]
          /\ IF o = "raised"
             THEN /\ exc' = "CloseError"
                  /\ pc' = "done"
                  /\ UNCHANGED ri
             ELSE /\ ri' = ri + 1
                  /\ UNCHANGED <<exc, pc>>
    /\ UNCHANGED <<variant, call, result, paths, open_files, io, pending,
                   bpVars, cmVars>>

\* __exit__ returns None: an exception of the body goes on to the caller
ExitReturn ==
    /\ pc = "exit"
    /\ ri > Len(open_files)
    /\ exc' = pending
    /\ pc' = "done"
    /\ UNCHANGED <<variant, call, result, rrVars, bpVars, cmVars>>

NextReader ==
    \/ WithEnter
    \/ EnterOpen
    \/ EnterReturnAndBody
    \/ ExitClose
    \/ ExitReturn

SpecReader == Init /\ [][NextReader]_vars

----------------------------------------------------------------------------
(* Claims about RasterReaderList.                                           *)

WithDone == Done /\ call.fn = "with RasterReaderList"

\* C1 (as claimed): when the with statement is left, by a failing open, by the
\* body or normally, no handle that was opened is still open; in particular
\* the handles opened before a failing open are closed.  (Stated for the runs
\* in which no close() fails.)
C1_NoHandleLeftOpen ==
    (WithDone /\ io.close_fails = {})
    => \A i \in 1..Len(open_files) : handle[open_files[i]] = "closed"

\* C2 (as claimed): once __exit__ has run, close() was called on every open
\* handle in order, whichever closes failed, and no close failure reached the
\* caller.
C2_ExitClosesAllAndSwallows ==
    (WithDone /\ exc # "OpenError")
    => /\ closes = open_files
       /\ exc # "CloseError"

----------------------------------------------------------------------------
(* scihub_cloud_mask.  A geometry is modelled by the pixels of the target   *)
(* grid it covers; the vector libraries are modelled by their contracts.    *)

MaxFeatures == 2
GridSide == 2

GML == <<"M", "S", "K", "_", "C", "L", "O", "U", "D", "S", "_", "B", "0", "0",
         ".", "g", "m", "l">>

CloudFileNames ==
    { <<"g", "/">> \o GML,
      <<"h", "/">> \o GML,
      <<"g", "/">> \o B02 \o JP2 }

CloudListings ==
    { fs \in UNION {[1..n -> CloudFileNames] : n \in 0..MaxEntries} :
        \A i, j \in 1..Len(fs) : i # j => fs[i] # fs[j] }

CloudProducts == [path : ArchivePaths \cup DirPaths, files : CloudListings]

Pixels == (1..GridSide) \X (1..GridSide)

\* the shapes of the features a cloud mask file may hold
FeatureShapes == { {<<1, 1>>}, {<<1, 2>>, <<2, 2>>} }
FeatureLists == UNION {[1..n -> FeatureShapes] : n \in 0..MaxFeatures}

Bool(b) == [t |-> "bool", v |-> b]
Tuple(xs) == [t |-> "tuple", v |-> xs]
Affine == [t |-> "Affine", v |-> <<>>]
Geometry(kind, px) == [t |-> kind, v |-> px]
NdArray(shape, data) == [t |-> "ndarray", v |-> [shape |-> shape, data |-> data]]

TargetShapes == {Tuple(<<1, GridSide>>), Tuple(<<GridSide, GridSide>>)}

KwArgs ==
    [rasterize : {None, Bool(TRUE), Bool(FALSE)},
     target_shape : {None} \cup TargetShapes,
     target_transform : {None, Affine}]

NoKwArgs == [rasterize |-> None, target_shape |-> None, target_transform |-> None]

\* the copies that define scihub_cloud_mask (the legacy copy does not)
CloudVariants == {"sources", "truecolor"}

\* Python truth of a value: None is false, a tuple is true unless empty, an
\* Affine (a named tuple of nine numbers) is true
Truthy(x) ==
    CASE x.t = "None" -> FALSE
      [] x.t = "bool" -> x.v
      [] x.t = "tuple" -> Len(x.v) > 0
      [] OTHER -> TRUE

\* the files the lookup finds: an archive's entries ending with the file name,
\* or the glob '**/MSK_CLOUDS_B00.gml' under a directory
mask_files(loc) ==
    IF PathSuffix(loc.path) = ZIP
    THEN SelectSeq(loc.files, LAMBDA e : EndsWith(e, GML))
    ELSE SelectSeq(loc.files, LAMBDA e : PathName(e) = GML)

\* unary_union of the features' shapes
unary_union(fs) ==
    Geometry("union", UNION {fs[i] : i \in 1..Len(fs)})

\* a changed read_mask: the `except ValueError` is missing
read_mask_uncaught(fs, l) ==
    IF Len(fs) = 0 /\ l.empty_raises
    THEN [exc |-> "ValueError", mask |-> None]
    ELSE [exc |-> "None", mask |-> unary_union(fs)]

\* the try block: fiona.open and unary_union; a file without features either
\* makes the libraries raise ValueError, which is caught and answered with
\* Polygon([]), or gives the union of nothing
read_mask(fs, l) ==
    IF Len(fs) = 0 /\ l.empty_raises
    THEN [exc |-> "None", mask |-> Geometry("Polygon", {})]
    ELSE [exc |-> "None", mask |-> unary_union(fs)]

\* mask.is_empty
is_empty(g) == g.v = {}

\* the pixels of an array of the given shape
PixelsOf(shape) == (1..shape[1]) \X (1..shape[2])

\* np.full(shape, value)
np_full(shape, value) == NdArray(shape, [px \in PixelsOf(shape) |-> value])

\* rasterio.features.geometry_mask: False inside the geometry, True outside
geometry_mask(g, shape) ==
    NdArray(shape, [px \in PixelsOf(shape) |-> px \notin g.v])

\* a changed rasterize_or_return: the empty mask is answered with an array of
\* False
rasterize_or_return_all_false(m, kw) ==
    IF Truthy(kw.rasterize)
    THEN IF ~Truthy(kw.target_transform) \/ ~Truthy(kw.target_shape)
         THEN [exc |-> "ValueError", result |-> None]
         ELSE IF is_empty(m)
         THEN [exc |-> "None", result |-> np_full(kw.target_shape.v, FALSE)]
         ELSE [exc |-> "None", result |-> geometry_mask(m, kw.target_shape.v)]
    ELSE [exc |-> "None", result |-> m]

\* `if kwargs.get('rasterize'):` and what follows
rasterize_or_return(m, kw) ==
    IF Truthy(kw.rasterize)
    THEN IF ~Truthy(kw.target_transform) \/ ~Truthy(kw.target_shape)
         THEN [exc |-> "ValueError", result |-> None]
         ELSE IF is_empty(m)
         THEN [exc |-> "None", result |-> np_full(kw.target_shape.v, TRUE)]
         ELSE [exc |-> "None", result |-> geometry_mask(m, kw.target_shape.v)]
    ELSE [exc |-> "None", result |-> m]

\* the call; the truecolor copy takes no keyword arguments
ScihubCloudMaskCall ==
    /\ Idle
    /\ \E v \in CloudVariants, loc \in CloudProducts, fs \in FeatureLists,
          kw \in KwArgs, er \in BOOLEAN :
        /\ v = "truecolor" => kw = NoKwArgs
        /\ variant' = v
        /\ product_path' = loc
        /\ features' = fs
        /\ kwargs' = kw
        /\ lib' = [empty_raises |-> er]
        /\ call' = [fn |-> "cloud_mask"]
    /\ file' = None
    /\ mask' = None
    /\ pc' = "locate_mask"
    /\ UNCHANGED <<result, exc, bpVars, rrVars>>

\* `file = [...][0]`: the first file found, or IndexError when there is none
LocateMask ==
    /\ pc = "locate_mask"
    /\ LET found == mask_files(product_path)
       IN IF Len(found) = 0
          THEN /\ exc' = "IndexError"
               /\ pc' = "done"
               /\ UNCHANGED file
          ELSE /\ file' = Str(found[1])
               /\ pc' = "read_mask"
               /\ UNCHANGED exc
    /\ UNCHANGED <<variant, call, result, product_path, features, kwargs, lib,
                   mask, bpVars, rrVars>>

\* the try block; truecolor returns from inside it
ReadMask ==
    /\ pc = "read_mask"
    /\ LET r == read_mask(features, lib)
       IN IF r.exc # "None"
          THEN /\ exc' = r.exc
               /\ pc' = "done"
               /\ UNCHANGED <<mask, result>>
          ELSE IF variant = "truecolor"
          THEN /\ result' = r.mask
               /\ pc' = "done"
               /\ UNCHANGED <<mask, exc>>
          ELSE /\ mask' = r.mask
               /\ pc' = "rasterize"
               /\ UNCHANGED <<result, exc>>
    /\ UNCHANGED <<variant, call, product_path, features, kwargs, lib, file,
                   bpVars, rrVars>>

\* sources: the rasterized mask, or the geometry
RasterizeOrReturn ==
    /\ pc = "rasterize"
    /\ LET r == rasterize_or_return(mask, kwargs)
       IN /\ exc' = r.exc
          /\ result' = r.result
    /\ pc' = "done"
    /\ UNCHANGED <<variant, call, cmVars, bpVars, rrVars>>

NextCloud ==
    \/ ScihubCloudMaskCall
    \/ LocateMask
    \/ ReadMask
    \/ RasterizeOrReturn

SpecCloud == Init /\ [][NextCloud]_vars

----------------------------------------------------------------------------
(* Claims about scihub_cloud_mask.                                          *)

CloudDone == Done /\ call.fn = "cloud_mask"

\* the call asks for the vector form
VectorForm == variant = "truecolor" \/ ~Truthy(kwargs.rasterize)

\* the product holds a cloud mask file
HasMaskFile ==
    \E i \in 1..Len(product_path.files) :
        PathName(product_path.files[i]) = GML

\* the value returned is an empty geometry
ReturnsEmptyGeometry ==
    /\ exc = "None"
    /\ result.t \in {"Polygon", "union"}
    /\ result.v = {}

\* C5 (as claimed): in vector form, a product without a cloud mask file, or
\* with one that holds no feature, gives an empty geometry and no error.
C5_AbsentOrEmptyGivesEmpty ==
    (CloudDone /\ VectorForm /\ (~HasMaskFile \/ Len(features) = 0))
    => ReturnsEmptyGeometry

\* C5 (amended): in vector form, a cloud mask file that holds no feature gives
\* an empty geometry and no error; a product without a cloud mask file makes
\* the call raise IndexError.
C5_EmptyGivesEmptyAbsentRaises ==
    (CloudDone /\ VectorForm)
    => /\ (HasMaskFile /\ Len(features) = 0) => ReturnsEmptyGeometry
       /\ ~HasMaskFile => exc = "IndexError"

\* a vector call on a product whose mask file has no feature and makes the
\* libraries raise: Polygon([]) came back
C5_Witness ==
    /\ CloudDone /\ VectorForm /\ HasMaskFile
    /\ Len(features) = 0 /\ lib.empty_raises
    /\ result = Geometry("Polygon", {})
    /\ exc = "None"

\* the pixels some feature of the mask file covers
Clouds == UNION {features[i] : i \in 1..Len(features)}

----------------------------------------------------------------------------
(* nth and scihub_normalize_range.                                          *)

MaxLen == 2
SensorMax == 2000

PyInt(i) == [t |-> "int", v |-> i]
Default == Str(<<"d", "e", "f", "a", "u", "l", "t">>)

Items == {PyInt(1), PyInt(2)}
ItemLists == UNION {[1..n -> Items] : n \in 0..MaxLen}
Indices == (0 - (MaxLen + 1))..(MaxLen + 1)

\* xs[n] for a list: indices count from 0, negative ones from the end, and
\* any other index raises IndexError
list_getitem(xs, n) ==
    IF 0 <= n /\ n < Len(xs) THEN [exc |-> "None", value |-> xs[n + 1]]
    ELSE IF n < 0 /\ 0 - Len(xs) <= n
    THEN [exc |-> "None", value |-> xs[Len(xs) + n + 1]]
    ELSE [exc |-> "IndexError", value |-> None]

\* a changed nth: the IndexError is not caught
nth_uncaught(xs, n, default) == list_getitem(xs, n)

\* nth(xs, n, default): `try: return xs[n]`, `except IndexError: return default`
nth(xs, n, default) ==
    LET r == list_getitem(xs, n)
    IN IF r.exc = "IndexError" THEN [exc |-> "None", value |-> default] ELSE r

NthCall ==
    /\ Idle
    /\ \E xs \in ItemLists, n \in Indices, given \in BOOLEAN :
        LET r == nth(xs, n, IF given THEN Default ELSE None)
        IN /\ call' = [fn |-> "nth", xs |-> xs, n |-> n, given |-> given]
           /\ result' = r.value
           /\ exc' = r.exc
    /\ pc' = "done"
    /\ UNCHANGED <<variant, bpVars, rrVars, cmVars>>

PyMax(a, b) == IF a >= b THEN a ELSE b
PyMin(a, b) == IF a <= b THEN a ELSE b

\* np.clip(x, lo, hi) of one element: minimum(maximum(x, lo), hi)
np_clip(x, lo, hi) == PyMin(PyMax(x, lo), hi)

\* x / d of one element: true division, kept exact as a fraction
true_divide(x, d) == [num |-> x, den |-> d]

\* a changed scihub_normalize_range: values are clipped from above only
normalize_no_floor(v) ==
    [i \in 1..Len(v) |-> true_divide(PyMin(v[i], SensorMax), SensorMax)]

\* scihub_normalize_range(v): np.clip(v, 0, 2000) / 2000, element by element
scihub_normalize_range(v) ==
    [i \in 1..Len(v) |-> true_divide(np_clip(v[i], 0, SensorMax), SensorMax)]

\* reflectance values inside, at the ends of and outside the sensor range
Samples == {-100, -1, 0, 1000, 2000, 2001, 5000}
Example == <<-100, 0, 1000, 2000, 5000>>
Arrays == UNION {[1..n -> Samples] : n \in 0..MaxLen} \cup {Example}

ScihubNormalizeRangeCall ==
    /\ Idle
    /\ \E v \in Arrays :
        /\ call' = [fn |-> "normalize_range", v |-> v]
        /\ result' = [t |-> "ndarray", v |-> scihub_normalize_range(v)]
    /\ pc' = "done"
    /\ UNCHANGED <<variant, exc, bpVars, rrVars, cmVars>>

NextPure ==
    \/ NthCall
    \/ ScihubNormalizeRangeCall

SpecPure == Init /\ [][NextPure]_vars

----------------------------------------------------------------------------
(* Claims about nth and scihub_normalize_range.                             *)

\* C8: nth never raises; it returns xs[n] when n is an index of xs (from the
\* front, or negative from the end) and the default (None when not given)
\* when n is out of range.
C8_NthNeverRaises ==
    (Done /\ call.fn = "nth")
    => /\ exc = "None"
       /\ LET len == Len(call.xs)
          IN result =
               IF 0 <= call.n /\ call.n < len THEN call.xs[call.n + 1]
               ELSE IF 0 - len <= call.n /\ call.n < 0
               THEN call.xs[len + call.n + 1]
               ELSE IF call.given THEN Default ELSE None

\* nth([], 0, 'default') returned 'default'
C8_Witness ==
    /\ Done /\ call.fn = "nth"
    /\ call.xs = <<>> /\ call.n = 0 /\ call.given
    /\ result = Default
    /\ exc = "None"

\* the fraction q is n/d
IsFraction(q, n, d) == q.num * d = n * q.den

\* C9: every element of the result is min(max(v, 0), 2000) / 2000, so it is
\* in [0, 1]; [-100, 0, 1000, 2000, 5000] gives [0, 0, 0.5, 1.0, 1.0].
C9_ClipAndScale ==
    (Done /\ call.fn = "normalize_range")
    => /\ exc = "None"
       /\ Len(result.v) = Len(call.v)
       /\ \A i \in 1..Len(call.v) :
            LET x == call.v[i]
                q == result.v[i]
                clipped == IF x < 0 THEN 0 ELSE IF x > 2000 THEN 2000 ELSE x
            IN /\ q.den > 0
               /\ IsFraction(q, clipped, 2000)
               /\ 0 <= q.num /\ q.num <= q.den
       /\ call.v = Example =>
            /\ IsFraction(result.v[1], 0, 1)
            /\ IsFraction(result.v[2], 0, 1)
            /\ IsFraction(result.v[3], 1, 2)
            /\ IsFraction(result.v[4], 1, 1)
            /\ IsFraction(result.v[5], 1, 1)

\* the example array was normalized, its negative element to 0
C9_Witness ==
    /\ Done /\ call.fn = "normalize_range"
    /\ call.v = Example
    /\ result.v[1].num = 0
    /\ result.v[5].num = result.v[5].den

====
